---------------------------- MODULE Spec2Model ----------------------------
(***************************************************************************)
(* Model of the screenshot backend: signup / login, JWT issuance and       *)
(* verification, the authentication dependency of the protected routes,    *)
(* and the screenshot routes (src/app/api.py, src/app/auth/*.py,            *)
(* src/app/model.py).                                                       *)
(*                                                                         *)
(* Conventions                                                             *)
(*  - The clock (datetime.now) counts ticks, TicksPerSecond to a second;   *)
(*    the exp claim of a JWT is a whole number of seconds.                 *)
(*  - An HMAC signature is the ideal one: the triple (key, sub, exp); it   *)
(*    verifies only under the key and payload it was made from.            *)
(*  - os.urandom values (bcrypt salt, external_id) are fresh: the n-th     *)
(*    draw is named n and never collides with an earlier draw.             *)
(*  - The opaque payload columns (fullname, url, img) take no part in any  *)
(*    decision of the code and are left out of the rows.                   *)
(*  - `last' records the outcome of the most recent call (and, for a       *)
(*    direct call of a function, its arguments).                           *)
(***************************************************************************)
EXTENDS Integers, Sequences, FiniteSets

\* ------------------------------------------------------------------ bounds
MaxUsers == 2
MaxShots == 2
MaxTokens == 1
MaxDrift == 1
\* The resolution of the clock: ticks to a second.
TicksPerSecond == 2

\* ------------------------------------------------------ program constants
\* timedelta(minutes=30), in seconds (create_access_token's default).
DefaultExpireSeconds == 1800
\* timedelta(minutes=30), in seconds (the ttl login passes).
LoginExpireSeconds == 1800
\* num_screenshots: int = 3
DefaultNumScreenshots == 3

JWT_SECRET == "server-secret"
JWT_ALGORITHM == "HS256"

Emails == {"a@b.com", "c@d.com"}
Passwords == {"secret123", "hunter2"}
OtherSecret == "other-secret"

VARIABLES users, screenshots, tokens, now, last
vars == <<users, screenshots, tokens, now, last>>

\* --------------------------------------------------------------- data
\* model.UserId
UserId(id, email) == [id |-> id, email |-> email]
NoIdentity == UserId(0, "")
Identities == {UserId(i, e) : i \in 1..MaxUsers, e \in Emails}

\* model.User: a row of the user table (password holds the hash).
User(id, email, password) == [id |-> id, email |-> email, password |-> password]
\* model.Screenshot: a row of the screenshot table.
Screenshot(id, owner_id, external_id, created_on) ==
    [id |-> id, owner_id |-> owner_id, external_id |-> external_id,
     created_on |-> created_on]

\* A number of seconds, in ticks.
Seconds(s) == s * TicksPerSecond
\* An absent timedelta (None) and a given one, in ticks.
NoDelta == [given |-> FALSE, ticks |-> 0]
timedelta(ticks) == [given |-> TRUE, ticks |-> ticks]
\* Python's truth value of `expires_delta': None and timedelta(0) are falsy.
Truthy(delta) == delta.given /\ delta.ticks # 0

Hmac(key, sub, exp) == [key |-> key, sub |-> sub, exp |-> exp]
NoSig == Hmac("", NoIdentity, 0)
\* No Authorization header at all, and a bearer string that is no JWT.
NoToken == [kind |-> "none", alg |-> "", sub |-> NoIdentity, exp |-> 0, sig |-> NoSig]
Garbage == [kind |-> "malformed", alg |-> "", sub |-> NoIdentity, exp |-> 0, sig |-> NoSig]

\* ------------------------------------------------------------ crypto.py
\* pwd_context.hash: bcrypt with the salt drawn for this call.
get_password_hash(password, salt) ==
    [scheme |-> "bcrypt", salt |-> salt, secret |-> password]

\* A stored string passlib cannot identify as a bcrypt hash.
CorruptHash == [scheme |-> "unknown", salt |-> 0, secret |-> "not-a-hash"]

\* pwd_context.verify: raises UnknownHashError on a string it cannot
\* identify; otherwise re-hashes with the stored salt and compares.
\* The function has no try/except: the exception reaches the caller.
verify_password(plain_password, hashed_password) ==
    IF hashed_password.scheme # "bcrypt"
    THEN [raised |-> TRUE, ok |-> FALSE]
    ELSE [raised |-> FALSE,
          ok |-> hashed_password = get_password_hash(plain_password, hashed_password.salt)]

\* os.urandom(32), base64-encoded: the n-th draw.
generate_random_base64_string(n) == n

\* ------------------------------------------------------ auth_handler.py
\* timegm(d.utctimetuple()): a datetime as whole seconds, the fraction of
\* a second dropped.
timegm(d) == d \div TicksPerSecond

\* jwt.encode: header alg, payload (sub, exp), signature over the payload.
\* A datetime exp is written as whole seconds.
jwt_encode(payload, key, alg) ==
    [kind |-> "jwt", alg |-> alg, sub |-> payload.sub, exp |-> timegm(payload.exp),
     sig |-> Hmac(key, payload.sub, timegm(payload.exp))]

\* jwt.decode(token, key, algorithms) at time t: the exception it raises
\* ("" for none) and the claims.  A token is expired from the first tick of
\* the second its exp names.
jwt_decode(token, key, algorithms, t) ==
    LET fail(e) == [err |-> e, sub |-> NoIdentity, exp |-> 0]
    IN  IF token.kind # "jwt" THEN fail("DecodeError")
        ELSE IF token.alg \notin algorithms THEN fail("InvalidAlgorithmError")
        ELSE IF token.sig # Hmac(key, token.sub, token.exp) THEN fail("InvalidSignatureError")
        ELSE IF Seconds(token.exp) <= t THEN fail("ExpiredSignatureError")
        ELSE [err |-> "", sub |-> token.sub, exp |-> token.exp]

\* Faulty variant: the handler catches jwt.DecodeError only.
DecodeErrorOnly == {"DecodeError"}

\* The exceptions `except jwt.InvalidTokenError' catches.
InvalidTokenError ==
    {"DecodeError", "InvalidAlgorithmError", "InvalidSignatureError", "ExpiredSignatureError"}

None == [raised |-> FALSE, valid |-> FALSE, sub |-> NoIdentity, exp |-> 0]

\* try: return jwt.decode(...)  except jwt.InvalidTokenError: return None
\* Any other exception would leave the function (raised).
decode_jwt(token) ==
    LET r == jwt_decode(token, JWT_SECRET, {JWT_ALGORITHM}, now)
    IN  IF r.err = "" THEN [raised |-> FALSE, valid |-> TRUE, sub |-> r.sub, exp |-> r.exp]
        ELSE IF r.err \in InvalidTokenError THEN None
        ELSE [None EXCEPT !.raised = TRUE]

\* Faulty variant: the lifetime is subtracted from the issue time.
create_access_token_Subtract(user, expires_delta) ==
    LET expire == IF Truthy(expires_delta)
                  THEN now - expires_delta.ticks
                  ELSE now - Seconds(DefaultExpireSeconds)
    IN  jwt_encode([sub |-> UserId(user.id, user.email), exp |-> expire],
                   JWT_SECRET, JWT_ALGORITHM)

\* if expires_delta: now + expires_delta  else: now + timedelta(minutes=30)
create_access_token(user, expires_delta) ==
    LET expire == IF Truthy(expires_delta)
                  THEN now + expires_delta.ticks
                  ELSE now + Seconds(DefaultExpireSeconds)
    IN  jwt_encode([sub |-> UserId(user.id, user.email), exp |-> expire],
                   JWT_SECRET, JWT_ALGORITHM)

\* q = select(User).where(User.email == data.email); user = exec(q).first()
\* Rows come back in id order; 0 stands for "no row".
FirstUserByEmail(email) ==
    LET hits == {i \in DOMAIN users : users[i].email = email}
    IN  IF hits = {} THEN 0 ELSE CHOOSE i \in hits : \A j \in hits : i <= j

\* Faulty variant: the row found by email is returned unverified.
check_and_get_user_NoVerify(email, password) ==
    [raised |-> FALSE, id |-> FirstUserByEmail(email)]

\* Returns the matched row's id, 0 for None, or lets verify_password's
\* exception through.
check_and_get_user(email, password) ==
    LET u == FirstUserByEmail(email)
    IN  IF u = 0 THEN [raised |-> FALSE, id |-> 0]
        ELSE LET v == verify_password(password, users[u].password)
             IN  IF v.raised THEN [raised |-> TRUE, id |-> 0]
                 ELSE IF v.ok THEN [raised |-> FALSE, id |-> u]
                 ELSE [raised |-> FALSE, id |-> 0]

\* An HTTP outcome of the dependency or of a handler.
Outcome(status, detail, ident) == [status |-> status, detail |-> detail, ident |-> ident]

\* OAuth2PasswordBearer(tokenUrl="token"), auto_error left at its default:
\* a request without a bearer token is answered 401 "Not authenticated"
\* before get_current_user_id runs.
oauth2_scheme(token) ==
    IF token.kind = "none"
    THEN Outcome(401, "Not authenticated", NoIdentity)
    ELSE Outcome(200, "", NoIdentity)

\* The dependency of the protected routes.
get_current_user_id(token) ==
    IF oauth2_scheme(token).status # 200 THEN oauth2_scheme(token)
    ELSE LET decoded_token == decode_jwt(token)
         IN  IF decoded_token.raised
             THEN Outcome(500, "Internal Server Error", NoIdentity)
             ELSE IF ~decoded_token.valid
             THEN Outcome(401, "Could not validate credentials", NoIdentity)
             ELSE Outcome(200, "", decoded_token.sub)

\* ------------------------------------------------------------- api.py
\* The record of a call.  Outcome: status and detail of the HTTP response,
\* issued (the access_token of the body), shots (the rows of the body),
\* ident (what get_current_user_id returned), matched (the id of the row
\* check_and_get_user returned or create_user inserted, 0 for none).
\* Arguments and return value of a direct call: token, delta, subject, result.
Blank ==
    [op |-> "init", status |-> 0, detail |-> "", issued |-> NoToken,
     shots |-> << >>, ident |-> NoIdentity, matched |-> 0,
     token |-> NoToken, delta |-> NoDelta, subject |-> NoIdentity, result |-> ""]

Call(op) == [Blank EXCEPT !.op = op]

\* What the dependency's rejection looks like in the record of a call.
Rejected(call, o) == [call EXCEPT !.status = o.status, !.detail = o.detail]

\* The identities of the stored users.
Accounts == {UserId(users[i].id, users[i].email) : i \in DOMAIN users}

\* Bearer strings a client can present: none, a non-JWT string, a token it
\* was given, a given token with its payload edited, a token signed with a
\* secret other than the server's, and an unsigned token (alg "none").
\* The identities written into an edited or self-made token are those of
\* the stored users and of the tokens held.
Subjects == Accounts \cup {t.sub : t \in tokens}
Tampered ==
    {[t EXCEPT !.sub = a] : t \in tokens, a \in Subjects}
    \cup {[t EXCEPT !.exp = timegm(now) + LoginExpireSeconds] : t \in tokens}
Forged ==
    {jwt_encode([sub |-> a, exp |-> now + Seconds(LoginExpireSeconds)], OtherSecret, JWT_ALGORITHM) :
        a \in Subjects}
    \cup {[jwt_encode([sub |-> a, exp |-> now + Seconds(LoginExpireSeconds)], "", "none")
             EXCEPT !.sig = NoSig] : a \in Subjects}
Presentable == {NoToken, Garbage} \cup tokens \cup Tampered \cup Forged

\* The tokens clients keep are bounded: a new token is added while there is
\* room, and otherwise replaces one that is held.
Hold(t) ==
    IF Cardinality(tokens \cup {t}) <= MaxTokens
    THEN {tokens \cup {t}}
    ELSE {(tokens \ {x}) \cup {t} : x \in tokens}

\* A client keeps the access_token of the response it has just received.
\* The server holds no session state: `tokens' is the clients' memory.
Keep ==
    /\ last.issued # NoToken
    /\ tokens' \in Hold(last.issued)
    /\ UNCHANGED <<users, screenshots, now, last>>

Min(a, b) == IF a <= b THEN a ELSE b

\* Faulty variant: the where clause is missing.
SelectScreenshots_NoWhere(owner_id, n) ==
    LET k == Min(n, Len(screenshots))
    IN  {[j \in 1..k |-> screenshots[f[j]]] :
            f \in {g \in [1..k -> DOMAIN screenshots] :
                     \A a, b \in 1..k : a < b => g[a] # g[b]}}

\* select(Screenshot).where(owner_id == id).order_by(created_on.desc()).limit(n):
\* every answer the database may give (rows with equal created_on come in
\* either order).
SelectScreenshots(owner_id, n) ==
    LET owned == {i \in DOMAIN screenshots : screenshots[i].owner_id = owner_id}
        k == Min(n, Cardinality(owned))
    IN  {[j \in 1..k |-> screenshots[f[j]]] :
            f \in {g \in [1..k -> owned] :
                     /\ \A a, b \in 1..k : a < b =>
                            /\ g[a] # g[b]
                            /\ screenshots[g[a]].created_on >= screenshots[g[b]].created_on
                     /\ \A i \in owned : (\A a \in 1..k : g[a] # i) =>
                            \A a \in 1..k : screenshots[g[a]].created_on >= screenshots[i].created_on}}

\* select(Screenshot).where(external_id == screenshot_id); exec(q).first()
FirstScreenshotByExternalId(screenshot_id) ==
    LET hits == {i \in DOMAIN screenshots : screenshots[i].external_id = screenshot_id}
    IN  IF hits = {} THEN 0 ELSE CHOOSE i \in hits : \A j \in hits : i <= j

Init ==
    /\ users = << >>
    /\ screenshots = << >>
    /\ tokens = {}
    /\ now = 0
    /\ last = Blank

\* POST /user/signup
create_user(email, password) ==
    /\ Len(users) < MaxUsers
    /\ LET id == Len(users) + 1
           db_user == User(id, email, get_password_hash(password, id))
           token == create_access_token(db_user, NoDelta)
       IN  /\ users' = Append(users, db_user)
           /\ last' = [Call("create_user") EXCEPT
                         !.status = 200, !.issued = token, !.matched = id]
    /\ UNCHANGED <<screenshots, tokens, now>>

\* Faulty variant: the user is looked up by email and the password unread.
login_ByEmailOnly(email, password) ==
    LET call == Call("login")
        db_user == FirstUserByEmail(email)
    IN  /\ IF db_user = 0
           THEN last' = [call EXCEPT !.status = 400,
                                     !.detail = "Incorrect username or password"]
           ELSE LET token == create_access_token(users[db_user],
                                                 timedelta(Seconds(LoginExpireSeconds)))
                IN  last' = [call EXCEPT !.status = 200, !.issued = token,
                                         !.matched = db_user]
        /\ UNCHANGED <<users, screenshots, tokens, now>>

\* POST /token
login(email, password) ==
    LET call == Call("login")
        db_user == check_and_get_user(email, password)
    IN  /\ IF db_user.raised
           THEN last' = [call EXCEPT !.status = 500, !.detail = "Internal Server Error"]
           ELSE IF db_user.id = 0
           THEN last' = [call EXCEPT !.status = 400,
                                     !.detail = "Incorrect username or password"]
           ELSE LET token == create_access_token(users[db_user.id],
                                                 timedelta(Seconds(LoginExpireSeconds)))
                IN  last' = [call EXCEPT !.status = 200, !.issued = token,
                                         !.matched = db_user.id]
        /\ UNCHANGED <<users, screenshots, tokens, now>>

\* GET /screenshots
get_screenshots(token, num_screenshots) ==
    LET call == Call("get_screenshots")
        current_user_id == get_current_user_id(token)
    IN  /\ IF current_user_id.status # 200
           THEN last' = Rejected(call, current_user_id)
           ELSE \E rows \in SelectScreenshots(current_user_id.ident.id, num_screenshots) :
                    last' = [call EXCEPT !.status = 200, !.shots = rows,
                                         !.ident = current_user_id.ident]
        /\ UNCHANGED <<users, screenshots, tokens, now>>

\* Faulty variant: the route depends on get_current_user_id like its siblings.
get_single_screenshot_Protected(token, screenshot_id) ==
    LET call == Call("get_single_screenshot")
        current_user_id == get_current_user_id(token)
        screenshot == FirstScreenshotByExternalId(screenshot_id)
    IN  /\ IF current_user_id.status # 200
           THEN last' = Rejected(call, current_user_id)
           ELSE IF screenshot = 0
           THEN last' = [call EXCEPT !.status = 404, !.detail = "Screenshot not found"]
           ELSE last' = [call EXCEPT !.status = 200, !.shots = <<screenshots[screenshot]>>]
        /\ UNCHANGED <<users, screenshots, tokens, now>>

\* GET /screenshots/{screenshot_id}: the route has no authentication
\* dependency; whatever Authorization header the request carries is unread.
get_single_screenshot(token, screenshot_id) ==
    LET call == Call("get_single_screenshot")
        screenshot == FirstScreenshotByExternalId(screenshot_id)
    IN  /\ IF screenshot = 0
           THEN last' = [call EXCEPT !.status = 404, !.detail = "Screenshot not found"]
           ELSE last' = [call EXCEPT !.status = 200, !.shots = <<screenshots[screenshot]>>]
        /\ UNCHANGED <<users, screenshots, tokens, now>>

\* POST /screenshots
add_screenshots(token) ==
    LET call == Call("add_screenshots")
        current_user_id == get_current_user_id(token)
    IN  IF current_user_id.status # 200
        THEN /\ last' = Rejected(call, current_user_id)
             /\ UNCHANGED <<users, screenshots, tokens, now>>
        ELSE /\ Len(screenshots) < MaxShots
             /\ LET id == Len(screenshots) + 1
                    screenshot_db == Screenshot(id, current_user_id.ident.id,
                                                generate_random_base64_string(id), now)
                IN  /\ screenshots' = Append(screenshots, screenshot_db)
                    /\ last' = [call EXCEPT !.status = 200, !.shots = <<screenshot_db>>,
                                            !.ident = current_user_id.ident]
             /\ UNCHANGED <<users, tokens, now>>

\* The clock: a tick passes, or a token lifetime passes.
Tick(d) ==
    /\ now + d <= Seconds(LoginExpireSeconds) + MaxDrift
    /\ (now + d) % Seconds(LoginExpireSeconds) <= MaxDrift
    /\ now' = now + d
    /\ UNCHANGED <<users, screenshots, tokens, last>>

Limits == {1, DefaultNumScreenshots}
\* The route reads no Authorization header: a request without one, with a
\* non-JWT string, or with a held token stands for any request.
Callers == {NoToken, Garbage} \cup tokens
ExternalIds == 1..(MaxShots + 1)
Steps == {1, Seconds(LoginExpireSeconds)}

Next ==
    \/ \E e \in Emails, p \in Passwords : create_user(e, p)
    \/ \E e \in Emails, p \in Passwords : login(e, p)
    \/ \E t \in Presentable, n \in Limits : get_screenshots(t, n)
    \/ \E t \in Callers, x \in ExternalIds : get_single_screenshot(t, x)
    \/ \E t \in Presentable : add_screenshots(t)
    \/ Keep
    \/ \E d \in Steps : Tick(d)

Spec == Init /\ [][Next]_vars

\* ------------------------------------------------ direct calls of the
\* token functions, with any identity and any lifetime
Deltas ==
    {NoDelta, timedelta(Seconds(-1)), timedelta(0), timedelta(1), timedelta(Seconds(1)),
     timedelta(Seconds(LoginExpireSeconds))}

\* create_access_token(user, expires_delta), called directly.
call_create_access_token(subject, delta) ==
    LET token == create_access_token(subject, delta)
    IN  /\ last' = [Call("create_access_token") EXCEPT
                      !.subject = subject, !.delta = delta, !.issued = token]
        /\ UNCHANGED <<users, screenshots, tokens, now>>

\* decode_jwt(token), called directly.
call_decode_jwt(token) ==
    LET decoded_token == decode_jwt(token)
    IN  /\ last' = [Call("decode_jwt") EXCEPT
                      !.token = token,
                      !.result = IF decoded_token.raised THEN "raised"
                                 ELSE IF decoded_token.valid THEN "claims"
                                 ELSE "None",
                      !.ident = decoded_token.sub]
        /\ UNCHANGED <<users, screenshots, tokens, now>>

\* The credential core: signup, login and the clock.  Neither reads the
\* screenshots or the tokens clients hold, and no other step writes users
\* or now, so the states they run from are the same with and without the
\* other steps.
NextAuth ==
    \/ \E e \in Emails, p \in Passwords : create_user(e, p)
    \/ \E e \in Emails, p \in Passwords : login(e, p)
    \/ \E d \in Steps : Tick(d)

SpecAuth == Init /\ [][NextAuth]_vars

\* Token issuance: signup, login, and create_access_token called directly.
NextToken ==
    \/ \E e \in Emails, p \in Passwords : create_user(e, p)
    \/ \E e \in Emails, p \in Passwords : login(e, p)
    \/ \E i \in Identities, d \in Deltas : call_create_access_token(i, d)
    \/ \E d \in Steps : Tick(d)

SpecToken == Init /\ [][NextToken]_vars

\* The token functions alone: tokens are made with any lifetime and any
\* presentable string is decoded, at any time.  (An absent and a zero
\* lifetime produce the same token as a lifetime of 30 minutes.)
Lifetimes == {timedelta(Seconds(-1)), timedelta(1), timedelta(Seconds(LoginExpireSeconds))}
NextDecode ==
    \/ \E i \in Identities, d \in Lifetimes : call_create_access_token(i, d)
    \/ Keep
    \/ \E t \in Presentable : call_decode_jwt(t)
    \/ \E d \in Steps : Tick(d)

SpecDecode == Init /\ [][NextDecode]_vars

\* ------------------------------------------------ a database that already
\* holds a row when the process starts (create_all leaves existing tables
\* alone); its password column holds a bcrypt hash or some other string.
StoredPasswords == {CorruptHash} \cup {get_password_hash(p, 1) : p \in Passwords}

InitExisting ==
    /\ users \in {<<User(1, e, h)>> :
                     e \in Emails, h \in StoredPasswords}
    /\ screenshots = << >>
    /\ tokens = {}
    /\ now = 0
    /\ last = Blank

SpecExisting == InitExisting /\ [][NextAuth]_vars

\* ============================================================== properties
\* A token the server signed for its payload and whose exp (a number of
\* seconds) lies after the clock reading t (a number of ticks).
Genuine(token, t) ==
    /\ token.kind = "jwt"
    /\ token.alg = "HS256"
    /\ token.sig = [key |-> "server-secret", sub |-> token.sub, exp |-> token.exp]
    /\ token.exp * TicksPerSecond > t

\* The four ways the dependency rejects a request.
GateRejects(token) == get_current_user_id(token).status # 200

\* A step is a call of op: every call writes its record, and leaves the
\* clock and the clients' tokens alone.
Called(op) == last'.op = op /\ now' = now /\ tokens' = tokens

\* C1: a protected request is rejected with one and the same status and
\* message whether it carries no token, a malformed one, a badly signed one
\* or an expired one: the rejection a call gets equals the rejection any
\* other rejected bearer string would have got.
C1_UniformRejection ==
    [][(Called("add_screenshots") \/ Called("get_screenshots")) /\ last'.status # 200
       => \A t \in Presentable, u \in Presentable :
            (add_screenshots(t) \/ \E n \in Limits : get_screenshots(t, n)) /\ GateRejects(u)
            => /\ get_current_user_id(u).status = last'.status
               /\ get_current_user_id(u).detail = last'.detail]_vars

\* What signup and login return: the token of a successful call resolves
\* to the id and email of the row signup inserted or login matched.
ReturnedTokenResolves ==
    (Called("create_user") \/ Called("login")) /\ last'.status = 200
    => \A e \in Emails, p \in Passwords :
         create_user(e, p) \/ login(e, p)
         => /\ last'.matched \in DOMAIN users'
            /\ users'[last'.matched].id = last'.matched
            /\ users'[last'.matched].email = e
            /\ (get_current_user_id(last.issued))'
                 = Outcome(200, "", UserId(last'.matched, e))

\* A direct call of create_access_token with a lifetime of at least `least'
\* ticks gives a token that, presented at the same clock reading, decodes
\* and resolves to exactly the identity it was made for.
MadeTokenResolves(least) ==
    Called("create_access_token") /\ last'.delta.given /\ last'.delta.ticks >= least
    => /\ call_create_access_token(last'.subject, last'.delta)
       /\ (decode_jwt(last.issued))'.valid
       /\ (decode_jwt(last.issued))'.sub = last'.subject
       /\ (get_current_user_id(last.issued))' = Outcome(200, "", last'.subject)

\* C2: a token made by create_access_token(I, ttl) with ttl > 0 and
\* presented at once decodes and resolves to exactly I; the token signup or
\* login returns resolves to the id and email of the row signup inserted or
\* login matched.
C2_IssuedTokenResolves ==
    [][MadeTokenResolves(1) /\ ReturnedTokenResolves]_vars

\* C2, amended: the same for every ttl of at least one second (the exp
\* claim is the expiry with the fraction of a second dropped, so a token
\* made with a shorter ttl can be expired when it is made).
C2_IssuedTokenResolvesFromOneSecond ==
    [][MadeTokenResolves(TicksPerSecond) /\ ReturnedTokenResolves]_vars

\* A token with a lifetime of at least a second has just been made, part
\* of the way through a second, for an identity; its exp is a whole second
\* short of issue time plus lifetime and the dependency resolves it.
C2_Witness ==
    /\ last.op = "create_access_token"
    /\ last.delta.given /\ last.delta.ticks >= TicksPerSecond
    /\ now % TicksPerSecond # 0
    /\ last.issued.exp * TicksPerSecond < now + last.delta.ticks
    /\ last.issued.sub = last.subject
    /\ get_current_user_id(last.issued) = Outcome(200, "", last.subject)

\* C3: decode_jwt never raises; it returns None for every token that is
\* malformed, tampered with, signed with another secret or expired, and
\* returns the claims exactly when the signature is the server's and exp
\* has not passed.
C3_DecodeNeverRaises ==
    [][Called("decode_jwt")
       => /\ call_decode_jwt(last'.token)
          /\ last'.result \in {"claims", "None"}
          /\ last'.result = "claims" <=> Genuine(last'.token, now)
          /\ last'.result = "claims" => last'.ident = last'.token.sub]_vars

\* decode_jwt has returned None for a token the server signed whose exp
\* has passed.
C3_Witness ==
    /\ last.op = "decode_jwt"
    /\ last.result = "None"
    /\ Genuine(last.token, (last.token.exp - 1) * TicksPerSecond)
    /\ last.token.exp * TicksPerSecond < now

\* C4: the exp claim of a token is the issue time plus the ttl passed,
\* whatever its sign, and the issue time plus 30 minutes only when no ttl
\* is passed (the sum taken to the whole second it falls in).
C4_ExpIsIssuePlusTtl ==
    [][Called("create_access_token")
       => last'.issued.exp
            = (now + (IF last'.delta.given THEN last'.delta.ticks
                      ELSE 1800 * TicksPerSecond)) \div TicksPerSecond]_vars

\* C5: check_and_get_user returns a row only if that row has exactly the
\* email asked for and the password verifies against its hash; it returns
\* None both when no row has the email and when the password is wrong.
C5_CheckAndGetUser ==
    [][Called("login")
       => \A e \in Emails, p \in Passwords :
            login(e, p)
            => LET m == last'.matched
               IN  /\ m # 0 => /\ m \in DOMAIN users
                               /\ users[m].email = e
                               /\ users[m].password.scheme = "bcrypt"
                               /\ users[m].password.secret = p
                   /\ (\A i \in DOMAIN users : users[i].email # e) => m = 0
                   /\ (\A i \in DOMAIN users :
                          users[i].email = e => users[i].password.secret # p) => m = 0]_vars

\* Every email is registered and the last login was turned down: the
\* email was found and the password did not verify.
C5_Witness ==
    /\ last.op = "login"
    /\ last.matched = 0
    /\ \A e \in Emails : \E i \in DOMAIN users : users[i].email = e

\* C6: verify_password never throws, so a login ends in a token or in the
\* ordinary rejection, whatever the stored hash.
C6_LoginNeverCrashes ==
    last.op = "login" => last.status \in {200, 400}

\* C7: login issues a token only after check_and_get_user returned a row
\* for the email and password; an unknown email and a wrong password get
\* the same error and no token.
C7_LoginIssuesOnlyAfterCheck ==
    [][Called("login")
       => \A e \in Emails, p \in Passwords :
            login(e, p)
            => LET found == \E i \in DOMAIN users :
                               /\ users[i].email = e
                               /\ users[i].password.scheme = "bcrypt"
                               /\ users[i].password.secret = p
               IN  /\ (last'.issued # NoToken \/ last'.status = 200)
                      => /\ found
                         /\ last'.matched \in DOMAIN users
                         /\ users[last'.matched].email = e
                         /\ users[last'.matched].password.secret = p
                         /\ last'.issued.sub = UserId(last'.matched, e)
                   /\ ~found => /\ last'.status = 400
                                /\ last'.detail = "Incorrect username or password"
                                /\ last'.issued = NoToken]_vars

\* A login has succeeded and its response carries a token for the row
\* matched.
C7_Witness ==
    /\ last.op = "login"
    /\ last.status = 200
    /\ last.matched \in DOMAIN users
    /\ last.issued.sub = UserId(last.matched, users[last.matched].email)

\* C8: every row the list call returns, and every row the add call
\* creates, has owner_id equal to the id in the caller's token.
C8_OwnerScoped ==
    [][/\ Called("get_screenshots") /\ last'.status = 200
          => \A t \in Presentable, n \in Limits :
               get_screenshots(t, n)
               => /\ Genuine(t, now)
                  /\ \A j \in 1..Len(last'.shots) : last'.shots[j].owner_id = t.sub.id
       /\ Called("add_screenshots") /\ last'.status = 200
          => \A t \in Presentable :
               add_screenshots(t)
               => /\ Genuine(t, now)
                  /\ Len(last'.shots) = 1
                  /\ screenshots' = Append(screenshots, last'.shots[1])
                  /\ last'.shots[1].owner_id = t.sub.id]_vars

\* The list call has returned rows while another user's rows are stored.
C8_Witness ==
    /\ last.op = "get_screenshots"
    /\ last.status = 200
    /\ Len(last.shots) >= 1
    /\ \E i \in DOMAIN screenshots : screenshots[i].owner_id # last.ident.id

\* C9: no two stored users have the same email.
C9_EmailUnique ==
    \A i, j \in DOMAIN users : users[i].email = users[j].email => i = j

\* C10: the single-screenshot read answers any caller: with the row
\* that has the external_id named, whoever owns it and whatever token the
\* request carries, and with 404 when no row has it.
C10_SingleReadUnauthenticated ==
    [][Called("get_single_screenshot")
       => /\ last'.status \in {200, 404}
          /\ \A x \in ExternalIds :
               get_single_screenshot(NoToken, x)
               => /\ \A t \in Presentable : get_single_screenshot(t, x)
                  /\ IF \E i \in DOMAIN screenshots : screenshots[i].external_id = x
                     THEN /\ last'.status = 200
                          /\ \A i \in DOMAIN screenshots :
                                screenshots[i].external_id = x
                                => last'.shots = <<screenshots[i]>>
                     ELSE /\ last'.status = 404
                          /\ last'.detail = "Screenshot not found"]_vars

\* A row has been read while no token in the client's hands is its owner's.
C10_Witness ==
    /\ last.op = "get_single_screenshot"
    /\ last.status = 200
    /\ Len(last.shots) = 1
    /\ tokens # {}
    /\ \A t \in tokens : t.sub.id # last.shots[1].owner_id
===========================================================================
